---- MODULE Spec2Model ----
(***************************************************************************)
(* Model of bot.py, the weekly job search bot: main() reads its            *)
(* configuration, fetches two sources (fetch_remotive, fetch_wwr), filters *)
(* the merged records with matches_keywords, sorts and truncates them, and *)
(* rewrites one worksheet (get_ws, clear, append_row).                     *)
(*                                                                         *)
(* Strings are sequences of code points, so that lower(), strip(),         *)
(* split(","), slicing, the substring test and Python's lexicographic      *)
(* comparison are computed and not assumed.                                *)
(***************************************************************************)
EXTENDS Integers, Sequences, FiniteSets, TLC

VARIABLES
    pc,          \* position of main(): see PcValues
    error,       \* the exception that ended main(), "" while none
    calls,       \* the calls main() has made to the sources and the worksheet
    sheet_id,    \* main: sheet_id (line 78)
    max_total,   \* main: max_total (line 80)
    keywords,    \* main: keywords (line 82)
    cred_file,   \* whether service_account.json exists on disk
    remotive,    \* what the Remotive endpoint answered ("unfetched" before)
    wwr,         \* what each of the three WWR channels answered
    all_jobs,    \* main: all_jobs (line 94)
    filtered,    \* main: filtered (lines 101-110)
    week,        \* main: week (line 117)
    row_i,       \* number of records the loop of line 118 has published
    prev_rows,   \* the rows of the worksheet before the run
    sheet,       \* the rows of the destination worksheet
    mk_pc,       \* matches_keywords called on its own: "call" or "done"
    mk_text,     \* its argument text
    mk_kws,      \* its argument keywords
    mk_hits      \* its result

vars == <<pc, error, calls, sheet_id, max_total, keywords, cred_file, remotive,
          wwr, all_jobs, filtered, week, row_i, prev_rows, sheet,
          mk_pc, mk_text, mk_kws, mk_hits>>

mainVars == <<pc, error, calls, sheet_id, max_total, keywords, cred_file,
              remotive, wwr, all_jobs, filtered, week, row_i, prev_rows, sheet>>

mkVars == <<mk_pc, mk_text, mk_kws, mk_hits>>

----------------------------------------------------------------------------
\* Bounds of the model.

\* longest list of jobs the Remotive endpoint returns
MaxItems == 2
\* longest list of entries one WWR channel returns
MaxEntries == 1
\* greatest MAX_TOTAL the environment supplies (the least is -1)
MaxMaxTotal == 2
\* longest keyword list handed to matches_keywords on its own
MaxKw == 2

----------------------------------------------------------------------------
\* Strings: sequences of code points.

Min(a, b) == IF a < b THEN a ELSE b
Max(a, b) == IF a > b THEN a ELSE b

\* s[:n] of Python, for every integer n (a negative n counts from the end)
PySlice(s, n) ==
    IF n >= 0 THEN SubSeq(s, 1, Min(n, Len(s)))
    ELSE SubSeq(s, 1, Max(0, Len(s) + n))

\* str.lower() on ASCII
LowerChar(c) == IF c >= 65 /\ c <= 90 THEN c + 32 ELSE c
LowerStr(s) == [i \in 1..Len(s) |-> LowerChar(s[i])]

\* the ASCII characters str.strip() removes
IsSpace(c) == (c >= 9 /\ c <= 13) \/ (c >= 28 /\ c <= 32)

RECURSIVE LStrip(_)
LStrip(s) ==
    IF s # <<>> /\ IsSpace(s[1]) THEN LStrip(Tail(s)) ELSE s

RECURSIVE RStrip(_)
RStrip(s) ==
    IF s # <<>> /\ IsSpace(s[Len(s)]) THEN RStrip(SubSeq(s, 1, Len(s) - 1)) ELSE s

\* str.strip()
Strip(s) == RStrip(LStrip(s))

\* str.split(sep) for a one-character separator: never an empty list
RECURSIVE Split(_, _)
Split(s, sep) ==
    IF \E i \in 1..Len(s) : s[i] = sep
    THEN LET i == CHOOSE k \in 1..Len(s) :
                      s[k] = sep /\ \A m \in 1..(k - 1) : s[m] # sep
         IN <<SubSeq(s, 1, i - 1)>> \o Split(SubSeq(s, i + 1, Len(s)), sep)
    ELSE <<s>>

\* sep.join(parts)
RECURSIVE Join(_, _)
Join(parts, sep) ==
    IF parts = <<>> THEN <<>>
    ELSE IF Len(parts) = 1 THEN parts[1]
    ELSE parts[1] \o sep \o Join(Tail(parts), sep)

\* the Python expression  a in b  on strings
IsSubstr(a, b) ==
    \E i \in 0..(Len(b) - Len(a)) : SubSeq(b, i + 1, i + Len(a)) = a

\* the Python expression  a < b  on strings: lexicographic by code point
StrLess(a, b) ==
    \E i \in 1..(Min(Len(a), Len(b)) + 1) :
        /\ \A k \in 1..(i - 1) : a[k] = b[k]
        /\ \/ i = Len(a) + 1 /\ i <= Len(b)
           \/ i <= Len(a) /\ i <= Len(b) /\ a[i] < b[i]

IsDigit(c) == c >= 48 /\ c <= 57

RECURSIVE DigitsValue(_)
DigitsValue(s) ==
    IF s = <<>> THEN 0
    ELSE 10 * DigitsValue(SubSeq(s, 1, Len(s) - 1)) + (s[Len(s)] - 48)

\* int(s): surrounding whitespace, an optional sign, then decimal digits;
\* anything else raises ValueError
ParseInt(s) ==
    LET t == Strip(s)
        signed == t # <<>> /\ t[1] \in {43, 45}
        digits == IF signed THEN Tail(t) ELSE t
    IN IF digits # <<>> /\ \A i \in 1..Len(digits) : IsDigit(digits[i])
       THEN [ok |-> TRUE,
             val |-> IF signed /\ t[1] = 45 THEN 0 - DigitsValue(digits)
                     ELSE DigitsValue(digits)]
       ELSE [ok |-> FALSE, val |-> 0]

\* all sequences over S of length at most n
SeqsUpTo(S, n) == UNION {[1..k -> S] : k \in 0..n}

----------------------------------------------------------------------------
\* String literals of bot.py and of the inputs the model draws.

SRC_REMOTIVE == <<82, 101, 109, 111, 116, 105, 118, 101>>  \* "Remotive"
SRC_WWR == <<87, 101, 87, 111, 114, 107, 82, 101, 109, 111, 116, 101, 108, 121>>  \* "WeWorkRemotely"
WORLDWIDE == <<87, 111, 114, 108, 100, 119, 105, 100, 101>>  \* "Worldwide"
COMMA == 44  \* ","
SPACE == <<32>>  \* " "
COMMA_SPACE == <<44, 32>>  \* ", "

headers ==
  << <<87, 101, 101, 107, 32, 79, 102, 32, 40, 77, 111, 110, 41>>,  \* "Week Of (Mon)"
     <<83, 111, 117, 114, 99, 101>>,  \* "Source"
     <<74, 111, 98, 32, 84, 105, 116, 108, 101>>,  \* "Job Title"
     <<67, 111, 109, 112, 97, 110, 121>>,  \* "Company"
     <<76, 111, 99, 97, 116, 105, 111, 110>>,  \* "Location"
     <<82, 101, 109, 111, 116, 101, 32, 80, 111, 108, 105, 99, 121>>,  \* "Remote Policy"
     <<80, 111, 115, 116, 101, 100, 32, 68, 97, 116, 101>>,  \* "Posted Date"
     <<76, 105, 110, 107>>,  \* "Link"
     <<78, 111, 116, 101, 115>>,  \* "Notes"
     <<77, 97, 116, 99, 104, 101, 100, 32, 75, 101, 121, 119, 111, 114, 100, 115>>  \* "Matched Keywords"
  >>

\* values of GOOGLE_SHEET_ID: "", " " and "s1"
SheetIdEnv == { <<>>, <<32>>, <<115, 49>> }

\* values of GOOGLE_SERVICE_ACCOUNT_JSON: "", "  " and "{}"
SaJsonEnv == { <<>>, <<32, 32>>, <<123, 125>> }

\* values of KEYWORDS: "sql, BI" and " ,sql,"
KeywordsEnv == { <<115, 113, 108, 44, 32, 66, 73>>, <<32, 44, 115, 113, 108, 44>> }

\* the decimal text of a one-digit integer, as the environment spells it
DigitStr(n) == IF n < 0 THEN <<45, 48 - n>> ELSE <<48 + n>>

\* values of MAX_TOTAL: -1 .. MaxMaxTotal, one of them padded, and "x"
MaxTotalEnv ==
    {DigitStr(n) : n \in (0 - 1)..MaxMaxTotal} \cup { <<32, 49>>, <<120>> }

\* jobs of the Remotive payload.  The first two differ in the hour of their
\* publication date, in their url and in their tags; the third matches no
\* keyword.
RemotivePool ==
  { [title |-> <<83, 81, 76, 32, 68, 101, 118>>,             \* "SQL Dev"
     company_name |-> <<65, 99, 109, 101>>,                   \* "Acme"
     candidate_required_location |-> <<69, 85>>,              \* "EU"
     url |-> <<114, 47, 49>>,                                 \* "r/1"
     publication_date |-> <<50, 48, 50, 52, 45, 48, 49, 45, 48, 50, 84, 49, 48>>,  \* "2024-01-02T10"
     tags |-> << <<115, 113, 108>>, <<101, 116, 108>> >>],    \* ["sql", "etl"]
    [title |-> <<83, 81, 76, 32, 68, 101, 118>>,             \* "SQL Dev"
     company_name |-> <<65, 99, 109, 101>>,                   \* "Acme"
     candidate_required_location |-> <<69, 85>>,              \* "EU"
     url |-> <<114, 47, 50>>,                                 \* "r/2"
     publication_date |-> <<50, 48, 50, 52, 45, 48, 49, 45, 48, 50, 84, 50, 51>>,  \* "2024-01-02T23"
     tags |-> << <<115, 113, 108>> >>],                       \* ["sql"]
    [title |-> <<67, 104, 101, 102>>,                         \* "Chef"
     company_name |-> <<65, 99, 109, 101>>,                   \* "Acme"
     candidate_required_location |-> <<69, 85>>,              \* "EU"
     url |-> <<114, 47, 51>>,                                 \* "r/3"
     publication_date |-> <<50, 48, 50, 52, 45, 48, 49, 45, 48, 51, 84, 48, 57>>,  \* "2024-01-03T09"
     tags |-> << <<99, 111, 111, 107>> >>] }                  \* ["cook"]

\* the entry each WWR channel serves (already free of HTML entities and of
\* markup: html.unescape leaves them as they are and the company pattern of
\* line 68 finds nothing).  Channels 1 and 2 share a publication time and
\* differ in title; channel 3 is later by date and smaller as a string.
WwrEntry(c) ==
    IF c = 1 THEN
      [title |-> <<68, 97, 116, 97, 32, 83, 113, 108>>,      \* "Data Sql"
       link |-> <<119, 47, 49>>,                              \* "w/1"
       summary |-> <<101, 116, 108>>,                         \* "etl"
       published |-> <<84, 117, 101, 44, 32, 48, 50, 32, 74, 97, 110, 32, 50, 48, 50, 52, 32, 49, 48, 58, 48, 48>>]  \* "Tue, 02 Jan 2024 10:00"
    ELSE IF c = 2 THEN
      [title |-> <<98, 105, 32, 108, 101, 97, 100>>,         \* "bi lead"
       link |-> <<119, 47, 50>>,                              \* "w/2"
       summary |-> <<80, 111, 119, 101, 114, 32, 66, 73>>,    \* "Power BI"
       published |-> <<84, 117, 101, 44, 32, 48, 50, 32, 74, 97, 110, 32, 50, 48, 50, 52, 32, 49, 49, 58, 51, 48>>]  \* "Tue, 02 Jan 2024 11:30"
    ELSE
      [title |-> <<83, 97, 108, 101, 115>>,                   \* "Sales"
       link |-> <<119, 47, 51>>,                              \* "w/3"
       summary |-> <<115, 113, 108, 32, 97, 100, 115>>,       \* "sql ads"
       published |-> <<77, 111, 110, 44, 32, 48, 56, 32, 74, 97, 110, 32, 50, 48, 50, 52, 32, 48, 57, 58, 48, 48>>]  \* "Mon, 08 Jan 2024 09:00"

\* the rows a worksheet may hold before the run: none, or one stale row
PrevRowsSet == { <<>>, << << <<115, 116, 97, 108, 101>> >> >> }

\* date.today() as a proleptic ordinal: Wednesday 2024-01-03, Monday 2024-01-08
TodaySet == { 738888, 738893 }

\* texts handed to matches_keywords on its own: "sql and ETL", "ab", ""
MkTexts == { <<115, 113, 108, 32, 97, 110, 100, 32, 69, 84, 76>>, <<97, 98>>, <<>> }

\* keywords handed to it: "", " ", "SQL", " etl", "ab ", "xyz"
MkKeywords ==
    { <<>>, <<32>>, <<83, 81, 76>>, <<32, 101, 116, 108>>, <<97, 98, 32>>,
      <<120, 121, 122>> }

----------------------------------------------------------------------------
\* The functions of bot.py.

\* weekday() of a proleptic ordinal: ordinal 1 is a Monday.
\* monday_of_week: d - timedelta(days=d.weekday())
monday_of_week(d) == d - ((d + 6) % 7)

\* date.isoformat() of the Mondays the model reaches
isoformat(d) ==
    IF d = 738886 THEN <<50, 48, 50, 52, 45, 48, 49, 45, 48, 49>>   \* "2024-01-01"
    ELSE <<50, 48, 50, 52, 45, 48, 49, 45, 48, 56>>                  \* "2024-01-08"

\* the condition of the comprehension of matches_keywords:
\* kw and kw.lower().strip() in t
KeepsKeyword(kw, t) == kw # <<>> /\ IsSubstr(Strip(LowerStr(kw)), t)

matches_keywords(text, kws) ==
    LET t == LowerStr(text)
    IN SelectSeq(kws, LAMBDA kw : KeepsKeyword(kw, t))

\* one job of fetch_remotive
RemotiveJob(item) ==
    [source |-> SRC_REMOTIVE, title |-> item.title, company |-> item.company_name,
     location |-> item.candidate_required_location, remote |-> WORLDWIDE,
     posted |-> PySlice(item.publication_date, 10), link |-> item.url,
     notes |-> Join(item.tags, SPACE)]

\* fetch_remotive: the jobs of a payload, or the failure of the request
fetch_remotive(answer) ==
    IF answer.ok
    THEN [ok |-> TRUE, jobs |-> [i \in 1..Len(answer.items) |-> RemotiveJob(answer.items[i])]]
    ELSE [ok |-> FALSE, jobs |-> <<>>]

\* one job of fetch_wwr
WwrJob(e) ==
    [source |-> SRC_WWR, title |-> e.title, company |-> <<>>,
     location |-> WORLDWIDE, remote |-> WORLDWIDE,
     posted |-> PySlice(e.published, 16), link |-> e.link, notes |-> e.summary]

RECURSIVE WwrJobsFrom(_, _)
WwrJobsFrom(answers, c) ==
    IF c > Len(answers) THEN <<>>
    ELSE [i \in 1..Len(answers[c].entries) |-> WwrJob(answers[c].entries[i])]
         \o WwrJobsFrom(answers, c + 1)

\* fetch_wwr: one loop over the channels with no handler in it, so the
\* failure of any channel is the failure of the whole call
fetch_wwr(answers) ==
    IF \A c \in 1..Len(answers) : answers[c].ok
    THEN [ok |-> TRUE, jobs |-> WwrJobsFrom(answers, 1)]
    ELSE [ok |-> FALSE, jobs |-> <<>>]

TryExtend_discards(jobs, res) == IF res.ok THEN jobs \o res.jobs ELSE <<>>

\* the body of the loop of main over the sources:
\* try: all_jobs.extend(fn())  except Exception: logging.warning(...)
TryExtend(jobs, res) == IF res.ok THEN jobs \o res.jobs ELSE jobs

\* the text main hands to matches_keywords
JobText(j) == Join(<<j.title, j.company, j.notes>>, SPACE)

HasHits_always(hits) == TRUE

\* main: if hits
HasHits(hits) == hits # <<>>

\* the loop of main that fills `filtered`; a kept job gets its "hits" key
MarkJob(j, kws) ==
    LET hits == matches_keywords(JobText(j), kws)
    IN IF HasHits(hits) THEN j @@ [hits |-> Join(hits, COMMA_SPACE)] ELSE j

IsMarked(j) == "hits" \in DOMAIN j

\* the sort key of main compared as Python compares tuples of strings
KeyLess_postedOnly(a, b) == StrLess(a.posted, b.posted)

KeyLess(a, b) ==
    \/ StrLess(a.posted, b.posted)
    \/ a.posted = b.posted /\ StrLess(a.title, b.title)

Reverse(s) == [i \in 1..Len(s) |-> s[Len(s) + 1 - i]]

\* x goes behind every element that is not greater than it
Insert(sorted, x) ==
    LET n == Cardinality({i \in 1..Len(sorted) : ~KeyLess(x, sorted[i])})
    IN SubSeq(sorted, 1, n) \o <<x>> \o SubSeq(sorted, n + 1, Len(sorted))

\* the stable ascending sort under list.sort
RECURSIVE SortAsc(_)
SortAsc(s) ==
    IF s = <<>> THEN <<>>
    ELSE Insert(SortAsc(SubSeq(s, 1, Len(s) - 1)), s[Len(s)])

SortDesc_reversedAfter(s) == Reverse(SortAsc(s))

\* list.sort(key=..., reverse=True): the list is reversed, sorted ascending
\* and stably, and reversed again
SortDesc(s) == Reverse(SortAsc(Reverse(s)))

RankJobs_untruncated(jobs, n) == SortDesc(jobs)

\* main: filtered.sort(...); filtered = filtered[:max_total]
RankJobs(jobs, n) == PySlice(SortDesc(jobs), n)

\* the row main appends for one job
JobRow(w, j) ==
    <<w, j.source, j.title, j.company, j.location, j.remote, j.posted, j.link,
      j.notes, IF IsMarked(j) THEN j.hits ELSE <<>> >>

ClearRows_keeps(rows) == rows

\* Worksheet.clear()
ClearRows(rows) == <<>>

\* Worksheet.append_row(row): behind the last row of the worksheet
AppendRowTo(rows, row) == Append(rows, row)

SheetIdMissing_never(sid) == FALSE

\* main: if not sheet_id
SheetIdMissing(sid) == sid = <<>>

\* main: keywords = [k.strip() for k in keywords_raw.split(",") if k.strip()]
ParseKeywords(raw) ==
    LET parts == Split(raw, COMMA)
        stripped == [i \in 1..Len(parts) |-> Strip(parts[i])]
    IN SelectSeq(stripped, LAMBDA k : k # <<>>)

----------------------------------------------------------------------------
\* What the outside world may answer.

RemotiveAnswers ==
    {[ok |-> FALSE, items |-> <<>>]}
    \cup {[ok |-> TRUE, items |-> it] : it \in SeqsUpTo(RemotivePool, MaxItems)}

ChannelAnswers(c) ==
    {[ok |-> FALSE, entries |-> <<>>]}
    \cup {[ok |-> TRUE, entries |-> es] : es \in SeqsUpTo({WwrEntry(c)}, MaxEntries)}

WwrAnswers ==
    {<<a, b, c>> : a \in ChannelAnswers(1), b \in ChannelAnswers(2), c \in ChannelAnswers(3)}

\* get_ws returns the worksheet or raises at one of its three lookups
GetWsOutcomes == {"ok", "AuthError", "SpreadsheetNotFound", "WorksheetNotFound"}

PcValues ==
    {"idle", "start", "creds", "fetch_remotive", "fetch_wwr", "filter", "rank",
     "get_ws", "clear", "header", "rows", "done", "abort"}

----------------------------------------------------------------------------
\* main(), one action per step.

Init ==
    /\ pc = "start"
    /\ error = ""
    /\ calls = <<>>
    /\ sheet_id = <<>>
    /\ max_total = 0
    /\ keywords = <<>>
    /\ cred_file \in BOOLEAN
    /\ remotive = [fetched |-> FALSE, ok |-> FALSE, items |-> <<>>]
    /\ wwr = [fetched |-> FALSE, answers |-> <<>>]
    /\ all_jobs = <<>>
    /\ filtered = <<>>
    /\ week = <<>>
    /\ row_i = 0
    /\ prev_rows \in PrevRowsSet
    /\ sheet = prev_rows
    /\ mk_pc = "idle"
    /\ mk_text = <<>>
    /\ mk_kws = <<>>
    /\ mk_hits = <<>>

Raise(e) == pc' = "abort" /\ error' = e

\* lines 78-84
ReadConfig ==
    /\ pc = "start"
    /\ \E sid_env \in SheetIdEnv, mt_env \in MaxTotalEnv, kw_env \in KeywordsEnv :
         LET mt == ParseInt(mt_env)
         IN /\ sheet_id' = Strip(sid_env)
            /\ IF ~mt.ok
               THEN /\ Raise("ValueError")
                    /\ UNCHANGED <<max_total, keywords>>
               ELSE /\ max_total' = mt.val
                    /\ keywords' = ParseKeywords(kw_env)
                    /\ IF SheetIdMissing(sheet_id')
                       THEN Raise("GOOGLE_SHEET_ID not provided")
                       ELSE pc' = "creds" /\ UNCHANGED error
    /\ UNCHANGED <<calls, cred_file, remotive, wwr, all_jobs, filtered, week,
                   row_i, prev_rows, sheet, mkVars>>

\* lines 86-92
CheckCreds ==
    /\ pc = "creds"
    /\ IF cred_file
       THEN pc' = "fetch_remotive" /\ UNCHANGED <<error, cred_file>>
       ELSE \E sa_env \in SaJsonEnv :
              IF Strip(sa_env) = <<>>
              THEN /\ Raise("service_account.json missing and GOOGLE_SERVICE_ACCOUNT_JSON not set")
                   /\ UNCHANGED cred_file
              ELSE /\ cred_file' = TRUE
                   /\ pc' = "fetch_remotive"
                   /\ UNCHANGED error
    /\ UNCHANGED <<calls, sheet_id, max_total, keywords, remotive, wwr, all_jobs,
                   filtered, week, row_i, prev_rows, sheet, mkVars>>

\* lines 94-99, fn = fetch_remotive
FetchRemotive ==
    /\ pc = "fetch_remotive"
    /\ \E answer \in RemotiveAnswers :
         /\ remotive' = [fetched |-> TRUE, ok |-> answer.ok, items |-> answer.items]
         /\ all_jobs' = TryExtend(all_jobs, fetch_remotive(answer))
    /\ calls' = Append(calls, "fetch_remotive")
    /\ pc' = "fetch_wwr"
    /\ UNCHANGED <<error, sheet_id, max_total, keywords, cred_file, wwr, filtered,
                   week, row_i, prev_rows, sheet, mkVars>>

\* lines 95-99, fn = fetch_wwr
FetchWwr ==
    /\ pc = "fetch_wwr"
    /\ \E answers \in WwrAnswers :
         /\ wwr' = [fetched |-> TRUE, answers |-> answers]
         /\ all_jobs' = TryExtend(all_jobs, fetch_wwr(answers))
    /\ calls' = Append(calls, "fetch_wwr")
    /\ pc' = "filter"
    /\ UNCHANGED <<error, sheet_id, max_total, keywords, cred_file, remotive,
                   filtered, week, row_i, prev_rows, sheet, mkVars>>

\* lines 101-107: the jobs are the same objects in all_jobs and in filtered
Filter ==
    /\ pc = "filter"
    /\ all_jobs' = [i \in 1..Len(all_jobs) |-> MarkJob(all_jobs[i], keywords)]
    /\ filtered' = SelectSeq(all_jobs', IsMarked)
    /\ pc' = "rank"
    /\ UNCHANGED <<error, calls, sheet_id, max_total, keywords, cred_file, remotive,
                   wwr, week, row_i, prev_rows, sheet, mkVars>>

\* lines 109-110
Rank ==
    /\ pc = "rank"
    /\ filtered' = RankJobs(filtered, max_total)
    /\ pc' = "get_ws"
    /\ UNCHANGED <<error, calls, sheet_id, max_total, keywords, cred_file, remotive,
                   wwr, all_jobs, week, row_i, prev_rows, sheet, mkVars>>

GetWs_clearsFirst ==
    /\ pc = "get_ws"
    /\ calls' = Append(calls, "get_ws")
    /\ sheet' = ClearRows(sheet)
    /\ \E outcome \in GetWsOutcomes :
         IF outcome = "ok" THEN pc' = "clear" /\ UNCHANGED error ELSE Raise(outcome)
    /\ UNCHANGED <<sheet_id, max_total, keywords, cred_file, remotive, wwr, all_jobs,
                   filtered, week, row_i, prev_rows, mkVars>>

\* line 112 and get_ws (lines 30-34)
GetWs ==
    /\ pc = "get_ws"
    /\ calls' = Append(calls, "get_ws")
    /\ \E outcome \in GetWsOutcomes :
         IF outcome = "ok" THEN pc' = "clear" /\ UNCHANGED error ELSE Raise(outcome)
    /\ UNCHANGED <<sheet_id, max_total, keywords, cred_file, remotive, wwr, all_jobs,
                   filtered, week, row_i, prev_rows, sheet, mkVars>>

\* line 113; a request the API refuses changes nothing and ends the run
Clear ==
    /\ pc = "clear"
    /\ calls' = Append(calls, "clear")
    /\ \/ sheet' = ClearRows(sheet) /\ pc' = "header" /\ UNCHANGED error
       \/ Raise("APIError") /\ UNCHANGED sheet
    /\ UNCHANGED <<sheet_id, max_total, keywords, cred_file, remotive, wwr, all_jobs,
                   filtered, week, row_i, prev_rows, mkVars>>

\* lines 114-117
AppendHeader ==
    /\ pc = "header"
    /\ calls' = Append(calls, "append_row")
    /\ \/ /\ sheet' = AppendRowTo(sheet, headers)
          /\ \E today \in TodaySet : week' = isoformat(monday_of_week(today))
          /\ pc' = "rows"
          /\ UNCHANGED error
       \/ Raise("APIError") /\ UNCHANGED <<sheet, week>>
    /\ UNCHANGED <<sheet_id, max_total, keywords, cred_file, remotive, wwr, all_jobs,
                   filtered, row_i, prev_rows, mkVars>>

\* lines 118-121, one pass of the loop
AppendJobRow ==
    /\ pc = "rows"
    /\ row_i < Len(filtered)
    /\ calls' = Append(calls, "append_row")
    /\ \/ /\ sheet' = AppendRowTo(sheet, JobRow(week, filtered[row_i + 1]))
          /\ row_i' = row_i + 1
          /\ UNCHANGED <<pc, error>>
       \/ Raise("APIError") /\ UNCHANGED <<sheet, row_i>>
    /\ UNCHANGED <<sheet_id, max_total, keywords, cred_file, remotive, wwr, all_jobs,
                   filtered, week, prev_rows, mkVars>>

\* line 122: the loop is over and main returns
Finish ==
    /\ pc = "rows"
    /\ row_i = Len(filtered)
    /\ pc' = "done"
    /\ UNCHANGED <<error, calls, sheet_id, max_total, keywords, cred_file, remotive,
                   wwr, all_jobs, filtered, week, row_i, prev_rows, sheet, mkVars>>

Next ==
    \/ ReadConfig
    \/ CheckCreds
    \/ FetchRemotive
    \/ FetchWwr
    \/ Filter
    \/ Rank
    \/ GetWs
    \/ Clear
    \/ AppendHeader
    \/ AppendJobRow
    \/ Finish

Spec == Init /\ [][Next]_vars

----------------------------------------------------------------------------
\* matches_keywords on its own, on every text and keyword list of the bounds.

InitMK ==
    /\ pc = "idle"
    /\ error = ""
    /\ calls = <<>>
    /\ sheet_id = <<>>
    /\ max_total = 0
    /\ keywords = <<>>
    /\ cred_file = FALSE
    /\ remotive = [fetched |-> FALSE, ok |-> FALSE, items |-> <<>>]
    /\ wwr = [fetched |-> FALSE, answers |-> <<>>]
    /\ all_jobs = <<>>
    /\ filtered = <<>>
    /\ week = <<>>
    /\ row_i = 0
    /\ prev_rows = <<>>
    /\ sheet = <<>>
    /\ mk_pc = "call"
    /\ mk_text \in MkTexts
    /\ mk_kws \in SeqsUpTo(MkKeywords, MaxKw)
    /\ mk_hits = <<>>

\* lines 36-38
CallMatchesKeywords ==
    /\ mk_pc = "call"
    /\ mk_hits' = matches_keywords(mk_text, mk_kws)
    /\ mk_pc' = "done"
    /\ UNCHANGED <<mk_text, mk_kws, mainVars>>

NextMK == CallMatchesKeywords

SpecMK == InitMK /\ [][NextMK]_vars

----------------------------------------------------------------------------
\* Properties.

\* a job as its adapter made it, without the "hits" key of the filter
StripHits(j) == [f \in (DOMAIN j) \ {"hits"} |-> j[f]]

\* the calls made on the worksheet, in order
WsCalls == SelectSeq(calls, LAMBDA c : c \in {"clear", "append_row"})

\* the matched jobs, in the order of the merged list
Matched == SelectSeq(all_jobs, IsMarked)

\* lines 109-110 have run
Ranked ==
    \/ pc \in {"get_ws", "clear", "header", "rows", "done"}
    \/ pc = "abort" /\ \E i \in DOMAIN calls : calls[i] = "get_ws"

\* (posted, title) of a is strictly greater than that of b
PairGreater(a, b) ==
    \/ StrLess(b.posted, a.posted)
    \/ a.posted = b.posted /\ StrLess(b.title, a.title)

SamePair(a, b) == a.posted = b.posted /\ a.title = b.title

Count(s, x) == Cardinality({i \in DOMAIN s : s[i] = x})

\* a is b with some elements left out
RECURSIVE IsSubseq(_, _)
IsSubseq(a, b) ==
    IF a = <<>> THEN TRUE
    ELSE IF b = <<>> THEN FALSE
    ELSE IF a[1] = b[1] THEN IsSubseq(Tail(a), Tail(b))
    ELSE IsSubseq(a, Tail(b))

\* some configured keyword occurs in the text, case-insensitively
MatchesSome(text) ==
    \E i \in DOMAIN keywords :
        keywords[i] # <<>> /\ IsSubstr(LowerStr(keywords[i]), LowerStr(text))

\* the worksheet a completed run leaves
ExpectedSheet ==
    <<headers>> \o [i \in 1..Len(filtered) |-> JobRow(week, filtered[i])]

\* C1: once the sheet ID has been read empty, or the credential file is
\* absent and the credential value empty, main has aborted, no source has
\* been fetched and the worksheet is as it was before the run.
C1_ConfigErrorAbortsBeforeFetch ==
    (\/ pc \notin {"idle", "start"} /\ sheet_id = <<>>
     \/ pc \notin {"idle", "start", "creds"} /\ ~cred_file)
    => /\ pc = "abort"
       /\ calls = <<>>
       /\ sheet = prev_rows

C1_Witness ==
    /\ pc = "abort"
    /\ sheet_id = <<>>
    /\ error = "GOOGLE_SHEET_ID not provided"
    /\ prev_rows # <<>>

\* C2: once both sources have been tried, both were invoked in order, the
\* merged list is the jobs of Remotive (none if it raised) followed by the
\* jobs of WWR (none if it raised), and the run goes on to the publisher:
\* it aborts at the worksheet or not at all.
C2_SourceFailureIsolated ==
    wwr.fetched =>
      /\ Len(calls) >= 2 /\ calls[1] = "fetch_remotive" /\ calls[2] = "fetch_wwr"
      /\ [i \in 1..Len(all_jobs) |-> StripHits(all_jobs[i])]
           = (IF remotive.ok
              THEN [i \in 1..Len(remotive.items) |-> RemotiveJob(remotive.items[i])]
              ELSE <<>>)
             \o (IF \A c \in 1..3 : wwr.answers[c].ok
                 THEN WwrJobsFrom(wwr.answers, 1)
                 ELSE <<>>)
      /\ pc = "abort" => \E i \in DOMAIN calls : calls[i] = "get_ws"

C2_Witness ==
    /\ pc = "done"
    /\ ~remotive.ok
    /\ \A c \in 1..3 : wwr.answers[c].ok
    /\ all_jobs # <<>>
    /\ Len(sheet) >= 2

\* C3: once fetch_wwr has been called with a failing channel, every entry of
\* every channel that answered is in the merged list.
C3_ChannelFailureIsolated ==
    (wwr.fetched /\ \E c \in 1..3 : ~wwr.answers[c].ok) =>
      \A c \in 1..3 :
        wwr.answers[c].ok =>
          \A i \in 1..Len(wwr.answers[c].entries) :
            \E k \in DOMAIN all_jobs :
              StripHits(all_jobs[k]) = WwrJob(wwr.answers[c].entries[i])

\* C4: matches_keywords(T, K) is the sub-sequence of K of the non-empty
\* keywords that occur, case-insensitively, as substrings of T.
C4_ExactlyTheOccurringKeywords ==
    mk_pc = "done" =>
      mk_hits = SelectSeq(mk_kws,
                  LAMBDA kw : kw # <<>> /\ IsSubstr(LowerStr(kw), LowerStr(mk_text)))

\* C5 as stated: for every max_total the ranked output has at most max_total
\* records, and all the matched records when they are fewer than max_total.
C5_LengthAtMostMaxTotal ==
    Ranked =>
      /\ Len(filtered) <= max_total
      /\ Len(Matched) < max_total => Len(filtered) = Len(Matched)

\* C5 amended: that holds for max_total >= 0; for a negative max_total the
\* output is the sorted list without its last -max_total records.
C5_LengthBySlice ==
    Ranked =>
      IF max_total >= 0
      THEN /\ Len(filtered) <= max_total
           /\ Len(Matched) < max_total => Len(filtered) = Len(Matched)
      ELSE Len(filtered) = Max(0, Len(Matched) + max_total)

C5_Witness ==
    /\ Ranked
    /\ max_total >= 1
    /\ Len(Matched) > max_total
    /\ Len(filtered) = max_total

\* C6: the ranked output is descending by (posted, title), and no matched
\* record left out of it has a strictly greater pair than a record in it.
C6_DescendingTop ==
    Ranked =>
      /\ \A i, k \in DOMAIN filtered :
           i < k => ~PairGreater(filtered[k], filtered[i])
      /\ \A i \in DOMAIN filtered : Count(filtered, filtered[i]) <= Count(Matched, filtered[i])
      /\ \A m \in DOMAIN Matched :
           Count(filtered, Matched[m]) < Count(Matched, Matched[m])
             => \A i \in DOMAIN filtered : ~PairGreater(Matched[m], filtered[i])

C6_Witness ==
    /\ Ranked
    /\ Len(Matched) > Len(filtered)
    /\ \E i \in DOMAIN filtered :
         /\ i + 1 \in DOMAIN filtered
         /\ filtered[i].posted = filtered[i + 1].posted
         /\ StrLess(filtered[i + 1].title, filtered[i].title)

\* C7: a completed run leaves the header row followed by one row per ranked
\* record, in order, and none of the earlier rows; the first call on the
\* worksheet is the clear and the only one, the header is in place before a
\* record row is appended, and the rows appear in ranker order.
C7_SheetRewritten ==
    /\ pc = "done" =>
         /\ sheet = ExpectedSheet
         /\ \A i \in DOMAIN sheet, k \in DOMAIN prev_rows : sheet[i] # prev_rows[k]
    /\ \A i \in DOMAIN WsCalls : (WsCalls[i] = "clear") <=> (i = 1)
    /\ Len(WsCalls) >= 2 =>
         /\ Len(sheet) <= Len(ExpectedSheet)
         /\ sheet = SubSeq(ExpectedSheet, 1, Len(sheet))
    /\ Len(WsCalls) >= 3 => Len(sheet) >= 1 /\ sheet[1] = headers

C7_Witness ==
    /\ pc = "done"
    /\ prev_rows # <<>>
    /\ Len(sheet) >= 3

\* C8: every record of the filtered (then ranked) list and every published
\* row has a matched keyword, and a fetched record that matches no keyword
\* is neither in that list nor in a published row.
C8_OnlyMatchedSurvive ==
    /\ \A i \in DOMAIN filtered :
         /\ IsMarked(filtered[i])
         /\ filtered[i].hits # <<>>
         /\ MatchesSome(JobText(filtered[i]))
    /\ Len(WsCalls) >= 2 =>
         \A r \in 2..Len(sheet) :
           /\ sheet[r][10] # <<>>
           /\ MatchesSome(Join(<<sheet[r][3], sheet[r][4], sheet[r][9]>>, SPACE))
    /\ \A a \in DOMAIN all_jobs :
         ~MatchesSome(JobText(all_jobs[a])) =>
           /\ \A i \in DOMAIN filtered : StripHits(filtered[i]) # StripHits(all_jobs[a])
           /\ Len(WsCalls) >= 2 =>
                \A r \in 2..Len(sheet) : sheet[r][8] # all_jobs[a].link

C8_Witness ==
    /\ pc = "done"
    /\ Len(sheet) >= 2
    /\ \E a \in DOMAIN all_jobs : ~IsMarked(all_jobs[a])

\* C9: the records of one (posted, title) pair stand in the ranked output in
\* the order they have in the merged list.
C9_StableSort ==
    Ranked =>
      \A i \in DOMAIN filtered :
        IsSubseq(SelectSeq(filtered, LAMBDA j : SamePair(j, filtered[i])),
                 SelectSeq(Matched, LAMBDA j : SamePair(j, filtered[i])))

C9_Witness ==
    /\ Ranked
    /\ \E i, k \in DOMAIN filtered :
         i < k /\ SamePair(filtered[i], filtered[k]) /\ filtered[i] # filtered[k]

\* C10: no call on the worksheet precedes get_ws, and when get_ws raises
\* the worksheet holds the rows it held before the run.
C10_FailedLookupLeavesSheet ==
    /\ \A i \in DOMAIN calls :
         calls[i] \in {"clear", "append_row"} => \E k \in 1..(i - 1) : calls[k] = "get_ws"
    /\ error \in {"AuthError", "SpreadsheetNotFound", "WorksheetNotFound"} =>
         /\ pc = "abort"
         /\ WsCalls = <<>>
         /\ sheet = prev_rows

C10_Witness ==
    /\ error = "WorksheetNotFound"
    /\ prev_rows # <<>>
    /\ filtered # <<>>

====
